---- MODULE Spec2Model ----
(***************************************************************************)
(* A model of rheal/dggs_classes.py: the rHEALPix cell algebra.            *)
(*                                                                         *)
(* Data representation                                                     *)
(*   - a character is a one-character string;                              *)
(*   - a suid string ("P01") is the sequence of its characters             *)
(*     <<"P","0","1">>;                                                    *)
(*   - a Cell is its suid tuple, Cell.suids: the face label followed by    *)
(*     integer digits, <<"P",0,1>> (crs and kind are always "auspix" and   *)
(*     "rHEALPix", the only values the module supports);                   *)
(*   - a CellCollection is a record                                        *)
(*       [type, raised, cellsNone, cells, suids]                           *)
(*     type is "CellCollection" (a Cell handed to an operator is the same  *)
(*     record with type "Cell" and its suid tuple as the one member of     *)
(*     cells);                                                             *)
(*     raised is "" for an object that was built, and the name of the      *)
(*     exception when the call that should have produced it raised;        *)
(*     cellsNone tells self.cells = None (CellCollection()) from           *)
(*     self.cells = [] (CellCollection([])); cells is self.cells as a list *)
(*     of Cells; suids is self.suids, a list of suid strings.              *)
(*   - list(set(x)) has no defined order in Python (string hashes are      *)
(*     randomised per process), so a set-derived list is a TLA+ set and    *)
(*     every order of it is a possible outcome where the order matters.    *)
(***************************************************************************)
EXTENDS Integers, Sequences, FiniteSets, TLC

\* parametrisations["auspix"]
zero_cells == <<"N", "O", "P", "Q", "R", "S">>

N_sides == 3

\* the group size _rhealpix_compress tests, a literal of the source
CompressGroupSize == 9

----------------------------------------------------------------------------
\* Generic list helpers

Range(s) == {s[i] : i \in 1..Len(s)}

RECURSIVE Concat(_)
\* the concatenation of a list of lists
Concat(ss) == IF ss = <<>> THEN <<>> ELSE Head(ss) \o Concat(Tail(ss))

RECURSIVE SetToSeq(_)
\* some list holding each element of a set once: list(a_set)
SetToSeq(S) ==
  IF S = {} THEN <<>>
  ELSE LET x == CHOOSE y \in S : TRUE IN <<x>> \o SetToSeq(S \ {x})

\* zero_cells.index(x)
IndexOf(x) == CHOOSE i \in 0..(Len(zero_cells) - 1) : zero_cells[i + 1] = x

----------------------------------------------------------------------------
\* str() and int() on the decimal digits the module formats and parses

DigitChars == <<"0", "1", "2", "3", "4", "5", "6", "7", "8", "9">>

\* str(i) for an integer 0..9
StrOfDigit(i) == DigitChars[i + 1]

\* int(c) for a one-character numeral
IntOfChar(c) == CHOOSE i \in 0..9 : DigitChars[i + 1] = c

RECURSIVE IntOfStr(_)
\* int(s) for a decimal numeral s: leading zeros do not count
IntOfStr(s) ==
  IF s = <<>> THEN 0
  ELSE 10 * IntOfStr(SubSeq(s, 1, Len(s) - 1)) + IntOfChar(s[Len(s)])

----------------------------------------------------------------------------
\* Cell

\* Cell.suid_from_str: tuple([suid_str[0]] + [int(i) for i in suid_str[1:]])
suid_from_str(s) ==
  [i \in 1..Len(s) |-> IF i = 1 THEN s[1] ELSE IntOfChar(s[i])]

\* Cell.__repr__: "".join([str(i) for i in self.suids])
CellStr(c) ==
  [i \in 1..Len(c) |-> IF i = 1 THEN c[1] ELSE StrOfDigit(c[i])]

\* Cell._rhealpix_validator: a known face label, then digits in range(N ** 2)
rhealpix_validator(c) ==
  /\ Len(c) >= 1
  /\ c[1] \in Range(zero_cells)
  /\ \A i \in 2..Len(c) : c[i] \in 0..(N_sides * N_sides - 1)

\* Cell.resolution
resolution(c) == Len(c) - 1

\* Cell.overlaps: the two suids agree over their common length
overlaps(a, b) ==
  \A i \in 1..(IF Len(a) < Len(b) THEN Len(a) ELSE Len(b)) : a[i] = b[i]

----------------------------------------------------------------------------
\* CellCollection: the canonicalisation pipeline of __init__

\* cell[:-1], the key _rhealpix_compress groups by
Parent(c) == SubSeq(c, 1, Len(c) - 1)

\* upper_cells[k]: the members of the list whose parent is k, in list order
\* (repeats are appended again)
GroupOf(suids, k) ==
  LET InGroup(c) == Parent(c) = k IN SelectSeq(suids, InGroup)

RECURSIVE GroupKeys(_)
\* the keys of upper_cells in insertion order
GroupKeys(suids) ==
  IF suids = <<>> THEN <<>>
  ELSE LET k == Parent(Head(suids))
           Other(c) == Parent(c) # k
       IN <<k>> \o GroupKeys(SelectSeq(Tail(suids), Other))

\* CellCollection._rhealpix_compress: a group of exactly 9 list members is
\* replaced by its key, any other group is kept as it is
rhealpix_compress(suids) ==
  LET keys == GroupKeys(suids)
  IN Concat([n \in 1..Len(keys) |->
               IF Len(GroupOf(suids, keys[n])) = CompressGroupSize
               THEN <<keys[n]>>
               ELSE GroupOf(suids, keys[n])])

\* CellCollection.deduplicate: list(set(self.suids)), a list in no defined order
deduplicate(suids) == Range(suids)

\* the test of absorb's inner loop: some suid[0 : i + 1], i in
\* range(len(suid) - 1), is in self.suids
HasAncestorIn(suid, cur) ==
  \E i \in 0..(Len(suid) - 2) : SubSeq(suid, 1, i + 1) \in cur

RECURSIVE absorb_loop(_, _)
\* absorb's outer loop: todo is what is left of the list the loop iterates
\* (the list as it was when the loop started), cur is self.suids
absorb_loop(todo, cur) ==
  IF todo = {} THEN cur
  ELSE LET suid == CHOOSE x \in todo : TRUE
       IN absorb_loop(todo \ {suid},
                      IF HasAncestorIn(suid, cur) THEN cur \ {suid} ELSE cur)

\* absorb looking at the parent only instead of every ancestor
absorb_parent_only(suids) ==
  {s \in suids : Len(s) < 2 \/ Parent(s) \notin suids}

\* CellCollection.absorb
absorb(suids) == absorb_loop(suids, suids)

\* the numeral _rhealpix_order builds for a suid: str(index of the face)
\* followed by str of each digit
Numeral(x) ==
  [i \in 1..Len(x) |->
     IF i = 1 THEN StrOfDigit(IndexOf(x[1])) ELSE StrOfDigit(x[i])]

\* the sort key: key=int
SortKey(x) == IntOfStr(Numeral(x))

\* the suid string _rhealpix_order rebuilds from a numeral:
\* zero_cells[int(x[0])] + x[1:]
FromNumeral(n) ==
  [i \in 1..Len(n) |-> IF i = 1 THEN zero_cells[IntOfChar(n[1]) + 1] ELSE n[i]]

RECURSIVE SortedBy(_, _)
\* the lists that hold each member of S once with key[x] never decreasing
SortedBy(S, key) ==
  IF S = {} THEN {<<>>}
  ELSE LET least == CHOOSE x \in S : \A y \in S : key[x] <= key[y]
       IN UNION {{<<x>> \o r : r \in SortedBy(S \ {x}, key)} :
                 x \in {y \in S : key[y] = key[least]}}

\* sorted(nums, key=int) over every order the set-derived list may have:
\* the sort is stable, so members with equal keys keep the list's order
SortedLists(S) == SortedBy(S, [x \in S |-> SortKey(x)])

\* x[0] on an empty tuple: _rhealpix_order raises IndexError
order_raises(suids) == \E x \in suids : Len(x) = 0

\* CellCollection._rhealpix_order: the possible values of self.suids
rhealpix_order(suids) ==
  {[i \in 1..Len(l) |-> FromNumeral(Numeral(l[i]))] : l \in SortedLists(suids)}

\* an exception in place of an object
Raised(e) ==
  [type |-> "CellCollection", raised |-> e, cellsNone |-> TRUE,
   cells |-> <<>>, suids |-> <<>>]

\* CellCollection.empty: not self.cells; crs, kind, ... are None, suids is []
EmptyCollection(isNone) ==
  [type |-> "CellCollection", raised |-> "", cellsNone |-> isNone,
   cells |-> <<>>, suids |-> <<>>]

\* CellCollection.__init__ on a list of Cells (isNone: cells=None): the set
\* of objects the call may build
CellCollection(cells, isNone, compress) ==
  IF isNone \/ cells = <<>> THEN {EmptyCollection(isNone)}
  ELSE LET s1 == IF compress THEN rhealpix_compress(cells) ELSE cells
           s3 == absorb(deduplicate(s1))
       IN IF order_raises(s3) THEN {Raised("IndexError")}
          ELSE {[type |-> "CellCollection", raised |-> "", cellsNone |-> FALSE,
                 cells |-> [i \in 1..Len(l) |-> suid_from_str(l[i])],
                 suids |-> l] : l \in rhealpix_order(s3)}

\* CellCollection.standardise_input on a list of suid strings
standardise_input(strs) == [i \in 1..Len(strs) |-> suid_from_str(strs[i])]

\* CellCollection(list of suid strings, compress=...): Cell(suid) raises
\* ValueError for a suid that does not validate
CellCollectionOfStrs(strs, compress) ==
  IF \E i \in 1..Len(strs) : ~rhealpix_validator(suid_from_str(strs[i]))
  THEN {Raised("ValueError")}
  ELSE CellCollection(standardise_input(strs), FALSE, compress)

RECURSIVE Join(_)
\* " ".join(list of strings), as a sequence of characters
Join(strs) ==
  IF strs = <<>> THEN <<>>
  ELSE IF Len(strs) = 1 THEN strs[1]
  ELSE strs[1] \o <<" ">> \o Join(Tail(strs))

\* CellCollection.__repr__
Repr(coll) ==
  IF coll.suids # <<>> THEN Join(coll.suids) ELSE <<"Empty CellCollection">>

\* CellCollection.__len__
CollLen(coll) == Len(coll.suids)

----------------------------------------------------------------------------
\* Cell.children and the operators + and -

\* a Cell object as an operand
CellObject(c) ==
  [type |-> "Cell", raised |-> "", cellsNone |-> FALSE,
   cells |-> <<c>>, suids |-> <<>>]

RECURSIVE Product(_)
\* product(range(N ** 2), repeat=delta), in itertools' order
Product(delta) ==
  IF delta = 0 THEN << <<>> >>
  ELSE LET shorter == Product(delta - 1)
           NN == N_sides * N_sides
       IN [k \in 1..(Len(shorter) * NN) |->
             Append(shorter[((k - 1) \div NN) + 1], (k - 1) % NN)]

\* Cell.children with range(N ** 2 - 1) in place of range(N ** 2): the last
\* child is left out
children_short(c, res) ==
  LET tails == [d \in 1..(N_sides * N_sides - 1) |-> <<d - 1>>]
  IN CellCollectionOfStrs(
       [k \in 1..Len(tails) |->
          CellStr(c) \o [i \in 1..Len(tails[k]) |-> StrOfDigit(tails[k][i])]],
       FALSE)

\* Cell.children(resolution): res is <<>> for None and <<r>> for r. The
\* result is the cell itself (resolution_delta 0), a ValueError, or the
\* uncompressed collection of str(self) + digits
Cell_children(c, res) ==
  LET resolution_delta == IF res = <<>> THEN 1 ELSE res[1] - resolution(c)
  IN IF resolution_delta = 0 THEN {CellObject(c)}
     ELSE IF resolution_delta < 0 THEN {Raised("ValueError")}
     ELSE LET tails == Product(resolution_delta)
              children_tuples ==
                [k \in 1..Len(tails) |->
                   CellStr(c) \o [i \in 1..Len(tails[k]) |-> StrOfDigit(tails[k][i])]]
          IN CellCollectionOfStrs(children_tuples, FALSE)

\* cell_one.children().cells, as a set (the loop over it only accumulates)
ChildCells(c) == UNION {Range(r.cells) : r \in Cell_children(c, <<>>)}

\* validate_other: a Cell becomes CellCollection(other), whose one member
\* leaves the constructor a single outcome
validate_other(other) ==
  IF other.type = "Cell"
  THEN CHOOSE r \in CellCollection(other.cells, FALSE, TRUE) : TRUE
  ELSE other

\* CellCollection.__add__(other, compress)
CollAdd(self, other, compress) ==
  LET o == validate_other(other)
      new_suids == SetToSeq(Range(self.suids) \cup Range(o.suids))
  IN CellCollectionOfStrs(new_suids, compress)

RECURSIVE progressively_intersect_strict(_, _)
\* progressively_intersect with > in place of >=: a cell of self that equals a
\* cell of other is not marked for removal
progressively_intersect_strict(cells_one, cells_two) ==
  LET pairs == cells_one \X cells_two
      apart == {p \in pairs : ~overlaps(p[1], p[2])}
      inside == {p \in pairs : /\ overlaps(p[1], p[2])
                               /\ resolution(p[1]) > resolution(p[2])}
      coarser == {p \in pairs : /\ overlaps(p[1], p[2])
                                /\ resolution(p[1]) < resolution(p[2])}
      Deeper(p) == progressively_intersect_strict(ChildCells(p[1]), {p[2]})
  IN [retain |-> {p[1] : p \in apart}
                 \cup UNION {Deeper(p).retain : p \in coarser},
      remove |-> {p[1] : p \in inside}
                 \cup UNION {Deeper(p).remove : p \in coarser}]

RECURSIVE progressively_intersect(_, _)
\* __sub__.progressively_intersect: what the calls append to cells_to_retain
\* and cells_to_remove, as sets (__sub__ reads both lists through set())
progressively_intersect(cells_one, cells_two) ==
  LET pairs == cells_one \X cells_two
      apart == {p \in pairs : ~overlaps(p[1], p[2])}
      inside == {p \in pairs : /\ overlaps(p[1], p[2])
                               /\ resolution(p[1]) >= resolution(p[2])}
      coarser == {p \in pairs : /\ overlaps(p[1], p[2])
                                /\ resolution(p[1]) < resolution(p[2])}
      Deeper(p) == progressively_intersect(ChildCells(p[1]), {p[2]})
  IN [retain |-> {p[1] : p \in apart}
                 \cup UNION {Deeper(p).retain : p \in coarser},
      remove |-> {p[1] : p \in inside}
                 \cup UNION {Deeper(p).remove : p \in coarser}]

\* CellCollection.__sub__(other, compress): iterating self.cells = None, or
\* other.cells = None for a cell of self, raises TypeError
CollSub(self, other, compress) ==
  LET o == validate_other(other)
  IN IF self.cellsNone \/ (self.cells # <<>> /\ o.cellsNone)
     THEN {Raised("TypeError")}
     ELSE LET found == progressively_intersect(Range(self.cells), Range(o.cells))
              overall == SetToSeq(found.retain \ found.remove)
          IN CellCollection(overall, FALSE, compress)

\* self + other: CellCollection.__add__, or Cell.__add__ which is
\* CellCollection(self) + validate_other(other)
Plus(self, other) == CollAdd(validate_other(self), validate_other(other), TRUE)

\* self - other: CellCollection.__sub__, or Cell.__sub__
Minus(self, other) == CollSub(validate_other(self), validate_other(other), TRUE)

----------------------------------------------------------------------------
\* Cell.neighbour and Cell.neighbours

\* the directions Cell.neighbours iterates over
Directions == <<"up", "down", "left", "right">>

\* Cell.atomic_neighbours, the entries keyed by a face label
atomic_faces ==
  [f \in Range(zero_cells) |->
     CASE f = "O" -> [left |-> "R", right |-> "P", down |-> "S", up |-> "N"]
       [] f = "P" -> [left |-> "O", right |-> "Q", down |-> "S", up |-> "N"]
       [] f = "Q" -> [left |-> "P", right |-> "R", down |-> "S", up |-> "N"]
       [] f = "R" -> [left |-> "Q", right |-> "O", down |-> "S", up |-> "N"]
       [] f = "N" -> [down |-> "O", right |-> "P", up |-> "Q", left |-> "R"]
       [] f = "S" -> [up |-> "O", right |-> "P", down |-> "Q", left |-> "R"]]

\* Cell.atomic_neighbours, the entries keyed by a digit
atomic_digits ==
  [n \in 0..(N_sides * N_sides - 1) |->
     CASE n = 0 -> [left |-> 2, right |-> 1, up |-> 6, down |-> 3]
       [] n = 1 -> [left |-> 0, right |-> 2, up |-> 7, down |-> 4]
       [] n = 2 -> [left |-> 1, right |-> 0, up |-> 8, down |-> 5]
       [] n = 3 -> [left |-> 5, right |-> 4, up |-> 0, down |-> 6]
       [] n = 4 -> [left |-> 3, right |-> 5, up |-> 1, down |-> 7]
       [] n = 5 -> [left |-> 4, right |-> 3, up |-> 2, down |-> 8]
       [] n = 6 -> [left |-> 8, right |-> 7, up |-> 3, down |-> 0]
       [] n = 7 -> [left |-> 6, right |-> 8, up |-> 4, down |-> 1]
       [] n = 8 -> [left |-> 7, right |-> 6, up |-> 5, down |-> 2]]

\* an[n][direction] for the entry at position i of a suid: a face label at
\* position 1, a digit after it
an(i, n, direction) ==
  IF i = 1 THEN atomic_faces[n][direction] ELSE atomic_digits[n][direction]

\* border[direction] with the right border under "left"
border_left_as_right(direction) ==
  CASE direction = "up" -> {i : i \in 0..(N_sides - 1)}
    [] direction = "down" -> {(N_sides - 1) * N_sides + i : i \in 0..(N_sides - 1)}
    [] direction = "left" -> {(i + 1) * N_sides - 1 : i \in 0..(N_sides - 1)}
    [] direction = "right" -> {(i + 1) * N_sides - 1 : i \in 0..(N_sides - 1)}

\* border[direction] of Cell.neighbour
border(direction) ==
  CASE direction = "up" -> {i : i \in 0..(N_sides - 1)}
    [] direction = "down" -> {(N_sides - 1) * N_sides + i : i \in 0..(N_sides - 1)}
    [] direction = "left" -> {i * N_sides : i \in 0..(N_sides - 1)}
    [] direction = "right" -> {(i + 1) * N_sides - 1 : i \in 0..(N_sides - 1)}

\* the scan of Cell.neighbour from the back of the suid: an entry is replaced
\* by its atomic neighbour until crossed_all_borders is set, which happens
\* after the first entry that is not in border[direction] (a face label never
\* is); the entries in front of it are copied
neighbour_suid(suid, direction) ==
  [i \in 1..Len(suid) |->
     IF \A j \in (i + 1)..Len(suid) : suid[j] \in border(direction)
     THEN an(i, suid[i], direction)
     ELSE suid[i]]

\* Cell.child_order: the order of (row, col)
child_order(row, col) == row * N_sides + col

\* the dictionary f turning clockwise: f[A[(i, j)]] = A[(N-1-j, i)]
rotate_f_clockwise(n) ==
  LET i == n \div N_sides
      j == n % N_sides
  IN child_order(N_sides - 1 - j, i)

\* the dictionary f of Cell.rotate_entry on digits: f[A[(i, j)]] = A[(j, N-1-i)]
rotate_f(n) ==
  LET i == n \div N_sides
      j == n % N_sides
  IN child_order(j, N_sides - 1 - i)

\* Cell.rotate_entry for the entry at position i of a suid: face labels stay
\* fixed under f
rotate_entry(i, x, quarter_turns) ==
  LET turns == quarter_turns % 4
  IN IF i = 1 THEN x
     ELSE IF turns = 1 THEN rotate_f(x)
     ELSE IF turns = 2 THEN rotate_f(rotate_f(x))
     ELSE IF turns = 3 THEN rotate_f(rotate_f(rotate_f(x)))
     ELSE x

\* Cell.rotate
rotate(suid, quarter_turns) ==
  [i \in 1..Len(suid) |-> rotate_entry(i, suid[i], quarter_turns)]

\* the number of quarter turns Cell.neighbour applies: it depends on the faces
\* of self and of the neighbour, one of them polar
quarter_turns_of(self0, neighbour0) ==
  LET south == zero_cells[6]
      north == zero_cells[1]
  IN IF \/ (self0 = south /\ neighbour0 = atomic_faces[self0].left)
        \/ (self0 = atomic_faces[south].right /\ neighbour0 = south)
        \/ (self0 = north /\ neighbour0 = atomic_faces[self0].right)
        \/ (self0 = atomic_faces[north].left /\ neighbour0 = north)
     THEN 1
     ELSE IF \/ (self0 = south /\ neighbour0 = atomic_faces[self0].down)
             \/ (self0 = atomic_faces[south].down /\ neighbour0 = south)
             \/ (self0 = north /\ neighbour0 = atomic_faces[self0].up)
             \/ (self0 = atomic_faces[north].up /\ neighbour0 = north)
     THEN 2
     ELSE IF \/ (self0 = south /\ neighbour0 = atomic_faces[self0].right)
             \/ (self0 = atomic_faces[south].left /\ neighbour0 = south)
             \/ (self0 = north /\ neighbour0 = atomic_faces[self0].left)
             \/ (self0 = atomic_faces[north].right /\ neighbour0 = north)
     THEN 3
     ELSE 0

\* Cell.neighbour(direction): the suid tuple of the Cell it returns
neighbour(c, direction) ==
  LET n == neighbour_suid(c, direction)
  IN rotate(n, quarter_turns_of(c[1], n[1]))

\* Cell.neighbours(): the four cardinal neighbours, then for a cell of
\* resolution > 0 the four diagonal ones, handed to the constructor
Cell_neighbours(c) ==
  LET cardinal == [k \in 1..Len(Directions) |-> neighbour(c, Directions[k])]
      diagonal == << neighbour(neighbour(c, "left"), "up"),
                     neighbour(neighbour(c, "left"), "down"),
                     neighbour(neighbour(c, "right"), "up"),
                     neighbour(neighbour(c, "right"), "down") >>
  IN CellCollection(IF resolution(c) > 0 THEN cardinal \o diagonal ELSE cardinal,
                    FALSE, TRUE)

----------------------------------------------------------------------------
\* CellCollection.children, flatten and neighbours

\* self.max_resolution and self.min_resolution of a collection with cells
max_resolution(self) ==
  CHOOSE m \in {resolution(c) : c \in Range(self.cells)} :
    \A c \in Range(self.cells) : resolution(c) <= m

min_resolution(self) ==
  CHOOSE m \in {resolution(c) : c \in Range(self.cells)} :
    \A c \in Range(self.cells) : resolution(c) >= m

RECURSIVE children_loop(_, _, _)
\* the loop of CellCollection.children over what is left of self.cells:
\* children = children.__add__(cell.children(resolution), compress=False);
\* an exception ends the loop
children_loop(cells, res, children) ==
  IF cells = <<>> THEN {children}
  ELSE UNION {IF x.raised # "" THEN {x}
              ELSE UNION {IF y.raised # "" THEN {y}
                          ELSE children_loop(Tail(cells), res, y) :
                          y \in CollAdd(children, x, FALSE)} :
              x \in Cell_children(Head(cells), res)}

\* CellCollection.children(resolution): iterating self.cells = None raises
\* TypeError
Coll_children(self, res) ==
  IF self.cellsNone THEN {Raised("TypeError")}
  ELSE children_loop(self.cells, res, EmptyCollection(TRUE))

\* CellCollection.flatten(resolution): res is <<>> for None and <<r>> for r;
\* on a collection without cells the comparison with None raises TypeError
flatten(self, res) ==
  IF self.cells = <<>> THEN {Raised("TypeError")}
  ELSE LET r == IF res # <<>> THEN res[1] ELSE max_resolution(self)
       IN IF r < min_resolution(self) THEN {Raised("ValueError")}
          ELSE Coll_children(self, <<r>>)

RECURSIVE EdgeProduct(_, _)
\* product(edge, repeat=delta) as a set of tuples
EdgeProduct(edge, delta) ==
  IF delta = 0 THEN {<<>>}
  ELSE {Append(t, e) : t \in EdgeProduct(edge, delta - 1), e \in edge}

\* Cell.border(resolution) for a resolution that is not None: the suids of the
\* cells along the four edges, list(set(...)), handed to the constructor;
\* product raises ValueError for a negative repeat
Cell_border(c, res) ==
  LET resolution_delta == res - resolution(c)
      all_edges == EdgeProduct({0, 3, 6}, resolution_delta)
                   \cup EdgeProduct({2, 5, 8}, resolution_delta)
                   \cup EdgeProduct({0, 1, 2}, resolution_delta)
                   \cup EdgeProduct({6, 7, 8}, resolution_delta)
  IN IF resolution_delta < 0 THEN {Raised("ValueError")}
     ELSE CellCollectionOfStrs(
            SetToSeq({CellStr(c) \o [k \in 1..Len(i) |-> StrOfDigit(i[k])] :
                      i \in all_edges}),
            TRUE)

RECURSIVE Coll_neighbours(_, _)
RECURSIVE neighbours_loop(_, _, _)
\* the loop of CellCollection.neighbours over what is left of self.cells:
\* all_neighbours += cell.border(resolution).neighbours() for a cell coarser
\* than resolution, all_neighbours += cell.neighbours() otherwise; an
\* exception ends the loop
neighbours_loop(cells, res, all_neighbours) ==
  IF cells = <<>> THEN {all_neighbours}
  ELSE LET cell == Head(cells)
           around ==
             IF resolution(cell) < res
             THEN UNION {IF b.raised # "" THEN {b} ELSE Coll_neighbours(b, <<>>) :
                         b \in Cell_border(cell, res)}
             ELSE Cell_neighbours(cell)
       IN UNION {IF x.raised # "" THEN {x}
                 ELSE UNION {IF y.raised # "" THEN {y}
                             ELSE neighbours_loop(Tail(cells), res, y) :
                             y \in CollAdd(all_neighbours, x, TRUE)} :
                 x \in around}

\* CellCollection.neighbours(resolution): res is <<>> for None and <<r>> for
\* r. "if not resolution" takes 0 as well as None for a missing resolution.
\* On a collection without cells max_resolution is None: the comparison
\* with it, or iterating self.cells = None, raises TypeError
Coll_neighbours(self, res) ==
  LET missing == res = <<>> \/ res[1] = 0
  IN IF self.cells = <<>>
     THEN IF missing /\ ~self.cellsNone
          THEN CollSub(EmptyCollection(TRUE), self, TRUE)
          ELSE {Raised("TypeError")}
     ELSE IF ~missing /\ res[1] < max_resolution(self)
     THEN {Raised("ValueError")}
     ELSE LET r == IF missing THEN max_resolution(self) ELSE res[1]
          IN UNION {IF a.raised # "" THEN {a} ELSE CollSub(a, self, TRUE) :
                    a \in neighbours_loop(self.cells, r, EmptyCollection(TRUE))}

----------------------------------------------------------------------------
\* The client: one collection S, built from a list and then operated on

\* the most blocks a list handed to the constructor is made of
MaxBlocks == 2

\* the most operations in one run
MaxOps == 2

\* the suid strings a client writes out by hand
Universe ==
  { <<"P">>, <<"P", "0">>, <<"P", "1">>, <<"P", "0", "0">>, <<"P", "1", "0">>,
    <<"N", "2">> }

\* the cells a client uses as Cell operands of + and -
OperandCells == { <<"P">>, <<"P", 0>> }

\* the cells a client asks the children of
ParentCells == { <<"P">>, <<"P", 0>>, <<"N", 2>> }

\* the cells whose children a client lists
ListedParents == { <<"P">>, <<"P", 0>> }

\* the suids a client repeats N * N times in a list
RepeatedSuids == { <<"P">>, <<"P", "0">> }

\* the pieces of a list: one suid, one suid N * N times over, or the suids of
\* the children of a cell
Blocks ==
  {<<s>> : s \in Universe}
  \cup {[i \in 1..(N_sides * N_sides) |-> s] : s \in RepeatedSuids}
  \cup UNION {{r.suids : r \in Cell_children(c, <<>>)} : c \in ListedParents}

RECURSIVE ListsOf(_)
\* the lists made of at most n blocks
ListsOf(n) ==
  IF n = 0 THEN {<<>>}
  ELSE ListsOf(n - 1) \cup {l \o b : l \in ListsOf(n - 1), b \in Blocks}

Inputs == ListsOf(MaxBlocks)

VARIABLES
  S,      \* the client's collection
  last,   \* the last call: its name, arguments and outcome
  origin, \* the name of the call that built S
  nops    \* operations so far

vars == <<S, last, origin, nops>>

NoCall ==
  [op |-> "none", src |-> "none", cells |-> <<>>, compress |-> TRUE,
   a |-> EmptyCollection(TRUE), b |-> EmptyCollection(TRUE),
   dir |-> "", res |-> <<>>, r |-> EmptyCollection(TRUE)]

\* S = CellCollection()
Init ==
  /\ S = EmptyCollection(TRUE)
  /\ last = NoCall
  /\ origin = "none"
  /\ nops = 0

\* the effect of a call that returned or raised r: a collection it returned
\* becomes S
Returns(call, r) ==
  /\ last' = [call EXCEPT !.r = r, !.src = origin]
  /\ IF r.raised = "" /\ r.type = "CellCollection"
     THEN S' = r /\ origin' = call.op
     ELSE UNCHANGED <<S, origin>>
  /\ nops' = nops + 1

\* what a client has at hand as an operand: S, CellCollection(), a Cell
Operands == {S, EmptyCollection(TRUE)} \cup {CellObject(c) : c \in OperandCells}

\* S = CellCollection(cells, compress=compress), the client's first call
Construct ==
  /\ nops = 0
  /\ \E cells \in Inputs, compress \in BOOLEAN :
       \E r \in CellCollectionOfStrs(cells, compress) :
         Returns([NoCall EXCEPT
                    !.op = IF compress THEN "CellCollection" ELSE "uncompressed",
                    !.cells = cells, !.compress = compress], r)

\* S = CellCollection(S.suids)
Rebuild ==
  /\ nops < MaxOps
  /\ \E r \in CellCollectionOfStrs(S.suids, TRUE) :
       Returns([NoCall EXCEPT !.op = "rebuild", !.cells = S.suids, !.a = S], r)

\* S = Cell(c).children()
Children ==
  /\ nops < MaxOps
  /\ \E c \in ParentCells :
       \E r \in Cell_children(c, <<>>) :
         Returns([NoCall EXCEPT !.op = "children", !.a = CellObject(c),
                                !.compress = FALSE], r)

\* S = a + b
Add ==
  /\ nops < MaxOps
  /\ \E a \in Operands, b \in Operands :
       \E r \in Plus(a, b) :
         Returns([NoCall EXCEPT !.op = "add", !.a = a, !.b = b], r)

\* S = a - b
Sub ==
  /\ nops < MaxOps
  /\ \E a \in Operands, b \in Operands :
       \E r \in Minus(a, b) :
         Returns([NoCall EXCEPT !.op = "sub", !.a = a, !.b = b], r)

Next == Construct \/ Rebuild \/ Children \/ Add \/ Sub

Spec == Init /\ [][Next]_vars

----------------------------------------------------------------------------
\* The client of the neighbourhood operations: S is a Cell the client walks
\* from neighbour to neighbour, or a collection it asks to flatten and asks
\* the neighbours of

\* the finest resolution of a Cell the client builds
MaxResolution == 2

RECURSIVE CellsAt(_)
\* the suid tuples of the cells of one resolution
CellsAt(r) ==
  IF r = 0 THEN {<<f>> : f \in Range(zero_cells)}
  ELSE {Append(c, d) : c \in CellsAt(r - 1), d \in 0..(N_sides * N_sides - 1)}

\* the cells the client builds
WalkCells == UNION {CellsAt(r) : r \in 0..MaxResolution}

\* the lists of suid strings the client builds a collection from
WalkLists ==
  { << <<"P">> >>, << <<"N">> >>, << <<"P", "0">> >>, << <<"S", "4">> >>,
    << <<"P", "0">>, <<"Q">> >>, << <<"N", "0">>, <<"P">> >>,
    << <<"P", "0">>, <<"P", "1">> >>, << <<"P", "0", "0">> >>,
    << <<"P", "0">>, <<"Q", "0", "0">> >>, << <<"S", "4">>, <<"N", "0", "0">> >> }

\* the resolutions the client asks for: None, 0, 1
Resolutions == {<<>>, <<0>>, <<1>>}

\* the effect of a call that returned or raised r
Answers(call, r) ==
  /\ last' = [call EXCEPT !.r = r, !.src = origin]
  /\ nops' = nops + 1

\* S = Cell(c), the client's first call
NewCell ==
  /\ nops = 0
  /\ \E c \in WalkCells :
       /\ rhealpix_validator(c)
       /\ S' = CellObject(c)
       /\ origin' = "Cell"
       /\ Answers([NoCall EXCEPT !.op = "Cell"], CellObject(c))

\* S = CellCollection(cells), the client's first call
NewCollection ==
  /\ nops = 0
  /\ \E cells \in WalkLists :
       \E r \in CellCollectionOfStrs(cells, TRUE) :
         /\ r.raised = ""
         /\ S' = r
         /\ origin' = "CellCollection"
         /\ Answers([NoCall EXCEPT !.op = "CellCollection", !.cells = cells], r)

\* S = S.neighbour(direction): the client steps to the neighbour
Neighbour ==
  /\ nops < MaxOps
  /\ S.type = "Cell"
  /\ \E k \in 1..Len(Directions) :
       LET b == neighbour(S.cells[1], Directions[k])
       IN /\ S' = CellObject(b)
          /\ origin' = "neighbour"
          /\ Answers([NoCall EXCEPT !.op = "neighbour", !.a = S,
                                    !.dir = Directions[k]], CellObject(b))

\* S.neighbours() of a Cell
Neighbours ==
  /\ nops < MaxOps
  /\ S.type = "Cell"
  /\ \E r \in Cell_neighbours(S.cells[1]) :
       Answers([NoCall EXCEPT !.op = "neighbours", !.a = S], r)
  /\ UNCHANGED <<S, origin>>

\* S.flatten(resolution) of a collection
Flatten ==
  /\ nops < MaxOps
  /\ S.type = "CellCollection"
  /\ \E res \in Resolutions :
       \E r \in flatten(S, res) :
         Answers([NoCall EXCEPT !.op = "flatten", !.a = S, !.res = res], r)
  /\ UNCHANGED <<S, origin>>

\* S.neighbours(resolution) of a collection
CollNeighbours ==
  /\ nops < MaxOps
  /\ S.type = "CellCollection"
  /\ \E res \in Resolutions :
       \E r \in Coll_neighbours(S, res) :
         Answers([NoCall EXCEPT !.op = "coll_neighbours", !.a = S, !.res = res], r)
  /\ UNCHANGED <<S, origin>>

WalkNext ==
  NewCell \/ NewCollection \/ Neighbour \/ Neighbours \/ Flatten \/ CollNeighbours

WalkSpec == Init /\ [][WalkNext]_vars

----------------------------------------------------------------------------
\* Vocabulary of the properties

\* the last call returned an object
Returned == last.r.raised = ""

\* the last call went through the constructor with compression enabled
Compressing == last.op \in {"CellCollection", "rebuild", "add", "sub"}

\* suid string x is a proper prefix of suid string y
StrictPrefix(x, y) == Len(x) < Len(y) /\ SubSeq(y, 1, Len(x)) = x

\* x is y or a proper prefix of y
PrefixOrSelf(x, y) == x = y \/ StrictPrefix(x, y)

\* the suid strings of the N * N children of the cell with suid string p
ChildrenStrs(p) == {Append(p, StrOfDigit(d)) : d \in 0..(N_sides * N_sides - 1)}

\* the suid strings that are the parent of a member of a list
ParentsIn(strs) == {SubSeq(s, 1, Len(s) - 1) : s \in {x \in Range(strs) : Len(x) > 1}}

\* the list holds all N * N children of some cell
HoldsFullSiblingSet(strs) ==
  \E p \in ParentsIn(strs) : ChildrenStrs(p) \subseteq Range(strs)

\* an operand as the collection the operators work on
AsCollection(o) == validate_other(o)

\* a collection with at least one cell
NonEmpty(o) == o.type = "CellCollection" /\ o.suids # <<>>

\* a collection without cells: CellCollection() or CellCollection([])
IsEmpty(o) == o.type = "CellCollection" /\ o.suids = <<>>

----------------------------------------------------------------------------
\* Properties

\* C1: a collection built with compression enabled, by the constructor or by
\* union or difference, never holds all N * N children of one parent.
C1_NoFullSiblingSet ==
  (Compressing /\ Returned) => ~HoldsFullSiblingSet(last.r.suids)

\* C2: with compression enabled every suid of the constructed collection is
\* a suid of the input list or a parent whose N * N distinct children are all
\* in the input list.
C2_CompressOnlyFullGroups ==
  (last.op = "CellCollection" /\ Returned) =>
    \A s \in Range(last.r.suids) :
      \/ s \in Range(last.cells)
      \/ ChildrenStrs(s) \subseteq Range(last.cells)

\* C3: every constructed collection, compressed or not, holds no suid twice
\* and no suid together with a proper prefix of it; a member of the input list
\* that has a proper prefix in the list is absent from the result, and
\* itself-or-an-ancestor of it is present.
C3_NoDuplicateNoPrefix ==
  /\ \A i, j \in 1..Len(S.suids) :
       i # j => S.suids[i] # S.suids[j] /\ ~StrictPrefix(S.suids[i], S.suids[j])
  /\ (last.op \in {"CellCollection", "uncompressed"} /\ Returned) =>
       \A x, y \in Range(last.cells) :
         StrictPrefix(x, y) =>
           /\ y \notin Range(last.r.suids)
           /\ \E z \in Range(last.r.suids) : PrefixOrSelf(z, y)

\* C3's case: a list with a cell and a descendant of it was constructed
\* without compression, and the result holds more than one cell
C3_Witness ==
  /\ last.op = "uncompressed" /\ Returned
  /\ \E x, y \in Range(last.cells) : StrictPrefix(x, y)
  /\ Len(last.r.suids) > 1

\* C4: no cell of a difference S - T overlaps a cell of T.
C4_DifferenceDisjoint ==
  (last.op = "sub" /\ Returned) =>
    \A x \in Range(last.r.cells), y \in Range(AsCollection(last.b).cells) :
      ~overlaps(x, y)

\* C5: S - T does not fail, and every cell of S that overlaps no cell of T
\* is in the result, itself or as an ancestor; T may be without cells.
C5_DifferenceRetains ==
  (last.op = "sub" /\ AsCollection(last.a).cells # <<>>) =>
    /\ Returned
    /\ \A x \in Range(AsCollection(last.a).cells) :
         (\A y \in Range(AsCollection(last.b).cells) : ~overlaps(x, y)) =>
           \E z \in Range(last.r.suids) : PrefixOrSelf(z, CellStr(x))

\* C6: S - S of a non-empty collection S is the empty collection: length 0
\* and string form "Empty CellCollection".
C6_SelfDifferenceEmpty ==
  (last.op = "sub" /\ NonEmpty(last.a) /\ last.b = last.a) =>
    /\ Returned
    /\ CollLen(last.r) = 0
    /\ Repr(last.r) = <<"Empty CellCollection">>

\* C6's case: S - S was taken of a collection of several cells
C6_Witness ==
  /\ last.op = "sub" /\ last.b = last.a /\ Returned
  /\ last.a.type = "CellCollection" /\ Len(last.a.suids) > 1

\* C7: constructing again, with compression, from the suids of a collection
\* the constructor built with compression gives the same string form.
C7_Idempotent ==
  (last.op = "rebuild" /\ last.src = "CellCollection") =>
    Returned /\ Repr(last.r) = Repr(last.a)

\* C8: S + empty and empty + S have the string form of S, for S built by the
\* constructor with compression.
C8_UnionIdentity ==
  (last.op = "add" /\ last.src = "CellCollection") =>
    /\ (NonEmpty(last.a) /\ IsEmpty(last.b)) =>
         Returned /\ Repr(last.r) = Repr(last.a)
    /\ (IsEmpty(last.a) /\ NonEmpty(last.b)) =>
         Returned /\ Repr(last.r) = Repr(last.b)

\* C9: two distinct suids of one constructed collection have different sort
\* keys, so the order of the members is fixed by the set of suids.
C9_DistinctSortKeys ==
  \A i, j \in 1..Len(S.cells) :
    i # j => SortKey(S.cells[i]) # SortKey(S.cells[j])

\* C10: c.children() is exactly the N * N suids c0..c8, uncompressed, and the
\* constructor with compression turns them into the one-cell collection {c}.
C10_ChildrenRoundTrip ==
  /\ last.op = "children" =>
       /\ Returned
       /\ Len(last.r.suids) = N_sides * N_sides
       /\ Range(last.r.suids) = ChildrenStrs(CellStr(last.a.cells[1]))
  /\ (last.op = "rebuild" /\ last.src = "children") =>
       /\ Returned
       /\ last.r.suids = <<CellStr(Parent(last.a.cells[1]))>>

\* C10's case: the children of a cell of resolution 1 were handed back to the
\* constructor
C10_Witness ==
  /\ last.op = "rebuild" /\ last.src = "children" /\ Returned
  /\ Len(last.a.suids) = N_sides * N_sides
  /\ Len(last.r.suids[1]) = 2

\* the direction opposite to a direction: up/down and left/right are swapped
opposite(d) ==
  CASE d = "up" -> "down" [] d = "down" -> "up"
    [] d = "left" -> "right" [] d = "right" -> "left"

\* C11: when b = a.neighbour(d) is on the face of a, b has the resolution of
\* a and b.neighbour(opposite(d)) is a.
C11_NeighbourSymmetry ==
  last.op = "neighbour" =>
    LET a == last.a.cells[1]
        b == last.r.cells[1]
    IN b[1] = a[1] =>
         /\ resolution(b) = resolution(a)
         /\ neighbour(b, opposite(last.dir)) = a

\* C11's case: a step from a cell of resolution 2 to a cell of the same face
\* under another parent, so that the scan went over a border
C11_Witness ==
  /\ last.op = "neighbour"
  /\ resolution(last.a.cells[1]) = 2
  /\ last.r.cells[1][1] = last.a.cells[1][1]
  /\ Parent(last.r.cells[1]) # Parent(last.a.cells[1])

\* C12: flatten(r) of a non-empty collection fails with a resolution error
\* (ValueError) when r is below the collection's minimum resolution, and
\* returns a collection for every r at or above it.
C12_FlattenFloor ==
  (last.op = "flatten" /\ NonEmpty(last.a) /\ last.res # <<>>) =>
    IF last.res[1] < min_resolution(last.a)
    THEN last.r.raised = "ValueError"
    ELSE Returned /\ last.r.type = "CellCollection"

\* C13: CellCollection.neighbours(r) raises for every requested r below the
\* collection's maximum resolution, 0 included.
C13_NeighboursFloor ==
  (/\ last.op = "coll_neighbours" /\ NonEmpty(last.a) /\ last.res # <<>>
   /\ last.res[1] < max_resolution(last.a)) =>
    ~Returned

\* C14: for b = a.neighbour(d), a is the neighbour of b in at least one of
\* the four directions, also when the step crosses to or from a polar face.
C14_AdjacencySymmetric ==
  last.op = "neighbour" =>
    \E k \in 1..Len(Directions) :
      neighbour(last.r.cells[1], Directions[k]) = last.a.cells[1]

\* C14's case: a step between a polar face and an equatorial face that was
\* rotated, so that the way back is not the opposite direction
C14_Witness ==
  /\ last.op = "neighbour"
  /\ last.r.cells[1][1] # last.a.cells[1][1]
  /\ "N" \in {last.a.cells[1][1], last.r.cells[1][1]}
  /\ resolution(last.a.cells[1]) > 0
  /\ neighbour(last.r.cells[1], opposite(last.dir)) # last.a.cells[1]

\* C15: the collection c.neighbours() of a cell c of resolution > 0 does not
\* hold c.
C15_NotOwnNeighbour ==
  (last.op = "neighbours" /\ resolution(last.a.cells[1]) > 0) =>
    /\ Returned
    /\ CellStr(last.a.cells[1]) \notin Range(last.r.suids)

====
